---- MODULE Spec2Model ----
(***************************************************************************)
(* Tic-tac-toe decision layer of script.js: the board and rules functions, *)
(* the Random, Minimax and MCTS agents, and the play loop that applies     *)
(* their moves.  Boards are JavaScript arrays: an array lives in a heap    *)
(* slot and is named by its slot number, so that a copy ([...board]) and   *)
(* an alias are different things.                                          *)
(***************************************************************************)
EXTENDS Integers, Sequences, FiniteSets, TLC

\* ------------------------------------------------------------------------
\* Global constants
\* ------------------------------------------------------------------------

PLAYER_X == "X"

PLAYER_O == "O"

\* JavaScript null (an empty cell, no winner, no parent, no move).
null == "null"

WINNING_COMBOS ==
    << <<0, 1, 2>>, <<3, 4, 5>>, <<6, 7, 8>>,
       <<0, 3, 6>>, <<1, 4, 7>>, <<2, 5, 8>>,
       <<0, 4, 8>>, <<2, 4, 6>> >>

Cells == 0..8

\* Array(9).fill(null)
EmptyBoard == [i \in Cells |-> null]

Other(p) == IF p = PLAYER_X THEN PLAYER_O ELSE PLAYER_X

\* ------------------------------------------------------------------------
\* Board and rules functions
\* ------------------------------------------------------------------------

\* The test of checkWin's loop body: the three cells of combo hold one marker.
isWon(board, combo) ==
    LET a == board[combo[1]]
    IN a # null /\ a = board[combo[2]] /\ a = board[combo[3]]

\* The marker of the first combo, in scan order, that one marker fills.
checkWin(board) ==
    IF \E k \in 1..Len(WINNING_COMBOS) : isWon(board, WINNING_COMBOS[k])
    THEN LET first == CHOOSE k \in 1..Len(WINNING_COMBOS) :
                          /\ isWon(board, WINNING_COMBOS[k])
                          /\ \A j \in 1..(k - 1) : ~isWon(board, WINNING_COMBOS[j])
         IN board[WINNING_COMBOS[first][1]]
    ELSE null

checkTie(board) ==
    checkWin(board) = null /\ \A i \in Cells : board[i] # null

\* Mutant: the filter keeps the truthy values, so index 0 is dropped.
getAvailableMovesTruthy(board) ==
    LET isEmpty(idx) == board[idx] = null /\ idx # 0
    IN SelectSeq([k \in 1..9 |-> k - 1], isEmpty)

\* board.map((val, idx) => val === null ? idx : null).filter(val => val !== null):
\* the indices 0..8, in ascending order, whose cell is null.
getAvailableMoves(board) ==
    LET isEmpty(idx) == board[idx] = null
    IN SelectSeq([k \in 1..9 |-> k - 1], isEmpty)

\* ------------------------------------------------------------------------
\* Arrays in the heap
\* ------------------------------------------------------------------------

\* Mutant: no copy is made, the new name is an alias of the array.
spreadAlias(heap, ref) == [heap |-> heap, ref |-> ref]

\* [...array]: a new array with the same cells, in a fresh heap slot.
spread(heap, ref) == [heap |-> Append(heap, heap[ref]), ref |-> Len(heap) + 1]

\* array[index] = value
store(heap, ref, index, value) == [heap EXCEPT ![ref][index] = value]

\* The arrays allocated after the first n went out of scope with the call
\* that allocated them.
release(heap, n) == SubSeq(heap, 1, n)

\* ------------------------------------------------------------------------
\* MinimaxAgent
\* ------------------------------------------------------------------------

\* JavaScript Infinity, above every score.
Infinity == 1000000000

evaluate(board) ==
    LET winner == checkWin(board)
    IN IF winner = PLAYER_O THEN 10
       ELSE IF winner = PLAYER_X THEN -10
       ELSE 0

Max(a, b) == IF a >= b THEN a ELSE b

Min(a, b) == IF a <= b THEN a ELSE b

\* Mutant: the depth is not taken into account.
terminalScoreNoDepth(score, depth) == score

\* Mutant: the depth counts twice.
terminalScoreTwiceDepth(score, depth) ==
    IF score > 0 THEN score - 2 * depth
    ELSE IF score < 0 THEN score + 2 * depth
    ELSE 0

\* The score minimax returns on a terminal board, from evaluate's score.
terminalScore(score, depth) ==
    IF score > 0 THEN score - depth
    ELSE IF score < 0 THEN score + depth
    ELSE 0

\* Mutant: no search, the board is scored as it stands.
minimaxNoSearch(heap, board, isMaximizing, depth) ==
    [score |-> terminalScore(evaluate(heap[board]), depth), heap |-> heap]

\* minimax(board, isMaximizing, depth) on the array `board` of `heap`; the
\* result is the score and the heap the call leaves behind.  minimaxBody is
\* the k-th pass through its for-loop over moves, from the state `done` the
\* passes before it left, and is `done` when moves has no k-th element.  A
\* board has nine cells, so the loop makes at most nine passes: after1 ..
\* after9 are its states after each of them, computed in that order.
RECURSIVE minimax(_, _, _, _)

\* Mutant: the recursive call passes depth, not depth + 1.
minimaxBodySameDepth(done, board, isMaximizing, depth, moves, k) ==
    IF k > Len(moves) THEN done
    ELSE LET playerToMove == IF isMaximizing THEN PLAYER_O ELSE PLAYER_X
             nb == spread(done.heap, board)
             h1 == store(nb.heap, nb.ref, moves[k], playerToMove)
             r  == minimax(h1, nb.ref, ~isMaximizing, depth)
         IN [heap |-> release(r.heap, Len(done.heap)),
             score |-> IF isMaximizing THEN Max(done.score, r.score)
                                       ELSE Min(done.score, r.score)]

minimaxBody(done, board, isMaximizing, depth, moves, k) ==
    IF k > Len(moves) THEN done
    ELSE LET playerToMove == IF isMaximizing THEN PLAYER_O ELSE PLAYER_X
             nb == spread(done.heap, board)
             h1 == store(nb.heap, nb.ref, moves[k], playerToMove)
             r  == minimax(h1, nb.ref, ~isMaximizing, depth + 1)
         IN [heap |-> release(r.heap, Len(done.heap)),
             score |-> IF isMaximizing THEN Max(done.score, r.score)
                                       ELSE Min(done.score, r.score)]

minimax(heap, board, isMaximizing, depth) ==
    IF checkWin(heap[board]) # null \/ checkTie(heap[board])
    THEN [score |-> terminalScore(evaluate(heap[board]), depth), heap |-> heap]
    ELSE LET moves == getAvailableMoves(heap[board])
             start == [score |-> IF isMaximizing THEN -Infinity ELSE Infinity,
                       heap |-> heap]
             pass(done, k) == minimaxBody(done, board, isMaximizing, depth, moves, k)
             forOf(body(_, _)) ==
                 LET after1 == body(start, 1)
                     after2 == body(after1, 2)
                     after3 == body(after2, 3)
                     after4 == body(after3, 4)
                     after5 == body(after4, 5)
                     after6 == body(after5, 6)
                     after7 == body(after6, 7)
                     after8 == body(after7, 8)
                     after9 == body(after8, 9)
                 IN <<after1, after2, after3, after4, after5,
                      after6, after7, after8, after9>>[9]
         IN forOf(pass)

\* Mutant: a score equal to the best one replaces it too.
improvesOrTies(isMaximizing, score, bestScore) ==
    IF isMaximizing THEN score >= bestScore ELSE score <= bestScore

\* The test of selectMove's loop body: score replaces bestScore.
improves(isMaximizing, score, bestScore) ==
    IF isMaximizing THEN score > bestScore ELSE score < bestScore

\* Mutant: minimax is called with the flag of the player who has just moved.
MinimaxSelectBodySameFlag(done, board, player, moves, k) ==
    IF k > Len(moves) THEN done
    ELSE LET isMaximizing == (player = PLAYER_O)
             nb == spread(done.heap, board)
             h1 == store(nb.heap, nb.ref, moves[k], player)
             r  == minimax(h1, nb.ref, isMaximizing, 0)
             better == improves(isMaximizing, r.score, done.bestScore)
         IN [heap |-> release(r.heap, Len(done.heap)),
             bestScore |-> IF better THEN r.score ELSE done.bestScore,
             bestMove |-> IF better THEN moves[k] ELSE done.bestMove,
             scored |-> Append(done.scored, r.score)]

\* The k-th pass through the for-loop of MinimaxAgent.selectMove, from the
\* state `done` the passes before it left; `scored` collects the values of
\* `score`, one for each move.
MinimaxSelectBody(done, board, player, moves, k) ==
    IF k > Len(moves) THEN done
    ELSE LET isMaximizing == (player = PLAYER_O)
             nb == spread(done.heap, board)
             h1 == store(nb.heap, nb.ref, moves[k], player)
             r  == minimax(h1, nb.ref, ~isMaximizing, 0)
             better == improves(isMaximizing, r.score, done.bestScore)
         IN [heap |-> release(r.heap, Len(done.heap)),
             bestScore |-> IF better THEN r.score ELSE done.bestScore,
             bestMove |-> IF better THEN moves[k] ELSE done.bestMove,
             scored |-> Append(done.scored, r.score)]

\* MinimaxAgent.selectMove(board, player); its for-loop over moves makes at
\* most nine passes, as minimax's does.
MinimaxSelectMove(heap, board, player) ==
    LET moves == getAvailableMoves(heap[board])
        start == [heap |-> heap,
                  bestScore |-> IF player = PLAYER_O THEN -Infinity ELSE Infinity,
                  bestMove |-> -1,
                  scored |-> <<>>]
        pass(done, k) == MinimaxSelectBody(done, board, player, moves, k)
        forOf(body(_, _)) ==
            LET after1 == body(start, 1)
                after2 == body(after1, 2)
                after3 == body(after2, 3)
                after4 == body(after3, 4)
                after5 == body(after4, 5)
                after6 == body(after5, 6)
                after7 == body(after6, 7)
                after8 == body(after7, 8)
                after9 == body(after8, 9)
            IN <<after1, after2, after3, after4, after5,
                 after6, after7, after8, after9>>[9]
        last == forOf(pass)
    IN [move |-> last.bestMove, heap |-> last.heap, scored |-> last.scored]

\* ------------------------------------------------------------------------
\* RandomAgent
\* ------------------------------------------------------------------------

\* JavaScript undefined, the value of array[0] on an array of length 0; a
\* number that is no cell and is not the sentinel -1.
undefined == -2

\* RandomAgent.selectMove(board): the moves Math.random() can select.
RandomSelectMove(heap, board) ==
    LET availableMoves == getAvailableMoves(heap[board])
    IN IF Len(availableMoves) = 0 THEN {-1}
       ELSE {availableMoves[randomIndex] : randomIndex \in 1..Len(availableMoves)}

\* ------------------------------------------------------------------------
\* MCTSNode and MCTS_Agent
\* ------------------------------------------------------------------------

\* A node's parent when it has none (parent = null).
noParent == 0

\* wins is counted in half points: a win adds 1.0, a draw adds 0.5.
WIN == 2

DRAW == 1

\* new MCTSNode(board, playerToMove, parent, move): the node, whose board is
\* a copy of the given array, and the heap with that copy.
MCTSNode(heap, boardArg, playerToMove, parent, move) ==
    LET b == spread(heap, boardArg)
    IN [heap |-> b.heap,
        node |-> [board |-> b.ref,
                  playerToMove |-> playerToMove,
                  parent |-> parent,
                  move |-> move,
                  wins |-> 0,
                  visits |-> 0,
                  children |-> <<>>,
                  unexploredMoves |-> getAvailableMoves(b.heap[b.ref])]]

\* Floating-point scores are kept in units of 1/Scale, rounded down.  For
\* every pair of siblings under a parent with up to 15 visits this orders
\* them exactly as the double-precision values do.
Scale == 10000

\* Math.log(n) in units of 1/Scale.
LnScaled(n) ==
    <<0, 6931, 10986, 13863, 16094, 17918, 19459, 20794,
      21972, 23026, 23979, 24849, 25649, 26391, 27081>>[n]

\* Math.sqrt on integers, rounded down: the r in lo..hi with r*r <= x < (r+1)^2.
\* mid is bound by a quantifier so that each step of the search has its
\* value at hand, also where TLC evaluates ENABLED.
RECURSIVE SqrtBetween(_, _, _)
SqrtBetween(x, lo, hi) ==
    IF lo >= hi THEN lo
    ELSE CHOOSE r \in {IF mid * mid <= x THEN SqrtBetween(x, mid, hi)
                                         ELSE SqrtBetween(x, lo, mid - 1) :
                       mid \in {(lo + hi + 1) \div 2}} : TRUE

Sqrt(x) == SqrtBetween(x, 0, 46340)

\* MCTSNode.getUCTScore() of node n, with c = Math.sqrt(2):
\* c * sqrt(ln(N) / v) = sqrt(2 * ln(N) / v).
getUCTScore(tree, n) ==
    IF tree[n].visits = 0 THEN Infinity
    ELSE IF tree[tree[n].parent].visits = 0 THEN Infinity
    ELSE (tree[n].wins * Scale) \div (WIN * tree[n].visits)
         + Sqrt((2 * LnScaled(tree[tree[n].parent].visits) * Scale) \div tree[n].visits)

\* Mutant: the first child is taken whatever the scores are.
selectFirstChild(tree, children, k, bestScore, bestChild) ==
    IF k > Len(children) THEN bestChild ELSE children[k]

\* The for-loop of selectNode over node.children, from the k-th child on.
RECURSIVE selectBestChild(_, _, _, _, _)
selectBestChild(tree, children, k, bestScore, bestChild) ==
    IF k > Len(children) THEN bestChild
    ELSE LET score == getUCTScore(tree, children[k])
         IN IF score > bestScore
            THEN selectBestChild(tree, children, k + 1, score, children[k])
            ELSE selectBestChild(tree, children, k + 1, bestScore, bestChild)

\* MCTS_Agent.selectNode(node)
RECURSIVE selectNode(_, _)
selectNode(tree, node) ==
    IF Len(tree[node].unexploredMoves) = 0 /\ Len(tree[node].children) > 0
    THEN LET bestChild == selectBestChild(tree, tree[node].children, 1, -Infinity, noParent)
         IN selectNode(tree, IF bestChild # noParent THEN bestChild ELSE node)
    ELSE node

\* Mutant: the move is read but stays in unexploredMoves.
expandNodeKeepsMove(tree, heap, node) ==
    IF Len(tree[node].unexploredMoves) = 0
    THEN [tree |-> tree, heap |-> heap, child |-> noParent]
    ELSE LET unexplored == tree[node].unexploredMoves
             move == unexplored[Len(unexplored)]
             newBoard == spread(heap, tree[node].board)
             playerWhoMoved == IF tree[node].playerToMove = PLAYER_X
                               THEN PLAYER_O ELSE PLAYER_X
             h1 == store(newBoard.heap, newBoard.ref, move, playerWhoMoved)
             nextPlayerToMove == IF playerWhoMoved = PLAYER_X
                                 THEN PLAYER_O ELSE PLAYER_X
             made == MCTSNode(h1, newBoard.ref, nextPlayerToMove, node, move)
             child == Len(tree) + 1
         IN [tree |-> Append([tree EXCEPT ![node].children = Append(@, child)],
                             made.node),
             heap |-> made.heap,
             child |-> child]

\* Mutant: the move is taken from the front of unexploredMoves (shift).
expandNodeShift(tree, heap, node) ==
    IF Len(tree[node].unexploredMoves) = 0
    THEN [tree |-> tree, heap |-> heap, child |-> noParent]
    ELSE LET unexplored == tree[node].unexploredMoves
             move == unexplored[1]
             newBoard == spread(heap, tree[node].board)
             playerWhoMoved == IF tree[node].playerToMove = PLAYER_X
                               THEN PLAYER_O ELSE PLAYER_X
             h1 == store(newBoard.heap, newBoard.ref, move, playerWhoMoved)
             nextPlayerToMove == IF playerWhoMoved = PLAYER_X
                                 THEN PLAYER_O ELSE PLAYER_X
             made == MCTSNode(h1, newBoard.ref, nextPlayerToMove, node, move)
             child == Len(tree) + 1
         IN [tree |-> Append([tree EXCEPT
                                 ![node].unexploredMoves = Tail(unexplored),
                                 ![node].children = Append(@, child)],
                             made.node),
             heap |-> made.heap,
             child |-> child]

\* MCTS_Agent.expandNode(node): the tree and heap it leaves, and the child
\* (noParent when it returns null).
expandNode(tree, heap, node) ==
    IF Len(tree[node].unexploredMoves) = 0
    THEN [tree |-> tree, heap |-> heap, child |-> noParent]
    ELSE LET unexplored == tree[node].unexploredMoves
             move == unexplored[Len(unexplored)]
             newBoard == spread(heap, tree[node].board)
             playerWhoMoved == IF tree[node].playerToMove = PLAYER_X
                               THEN PLAYER_O ELSE PLAYER_X
             h1 == store(newBoard.heap, newBoard.ref, move, playerWhoMoved)
             nextPlayerToMove == IF playerWhoMoved = PLAYER_X
                                 THEN PLAYER_O ELSE PLAYER_X
             made == MCTSNode(h1, newBoard.ref, nextPlayerToMove, node, move)
             child == Len(tree) + 1
         IN [tree |-> Append([tree EXCEPT
                                 ![node].unexploredMoves = SubSeq(unexplored, 1, Len(unexplored) - 1),
                                 ![node].children = Append(@, child)],
                             made.node),
             heap |-> made.heap,
             child |-> child]

\* The result rollout returns for its final board.
rolloutResult(finalBoard) ==
    LET winner == checkWin(finalBoard)
    IN IF winner = PLAYER_O THEN 1
       ELSE IF winner = PLAYER_X THEN -1
       ELSE 0

\* Mutant: only the node itself is updated, its ancestors are not.
backpropagateNoAncestors(tree, current, result) ==
    IF current = noParent THEN tree
    ELSE LET parent == tree[current].parent
             playerPerspective ==
                 IF parent # noParent
                 THEN (IF tree[parent].playerToMove = PLAYER_O THEN 1 ELSE -1)
                 ELSE 1
             credit == IF result * playerPerspective = 1 THEN WIN
                       ELSE IF result = 0 THEN DRAW
                       ELSE 0
         IN [tree EXCEPT ![current].visits = @ + 1,
                         ![current].wins = @ + credit]

\* Mutant: the walk stops below the root, which is not updated.
RECURSIVE backpropagateBelowRoot(_, _, _)
backpropagateBelowRoot(tree, current, result) ==
    IF current = noParent THEN tree
    ELSE IF tree[current].parent = noParent THEN tree
    ELSE LET parent == tree[current].parent
             playerPerspective ==
                 IF tree[parent].playerToMove = PLAYER_O THEN 1 ELSE -1
             credit == IF result * playerPerspective = 1 THEN WIN
                       ELSE IF result = 0 THEN DRAW
                       ELSE 0
         IN backpropagateBelowRoot([tree EXCEPT ![current].visits = @ + 1,
                                                ![current].wins = @ + credit],
                                   parent, result)

\* Mutant: the walk goes from a node to its grandparent, every other
\* ancestor is passed over.
RECURSIVE backpropagateEveryOther(_, _, _)
backpropagateEveryOther(tree, current, result) ==
    IF current = noParent THEN tree
    ELSE LET parent == tree[current].parent
             playerPerspective ==
                 IF parent # noParent
                 THEN (IF tree[parent].playerToMove = PLAYER_O THEN 1 ELSE -1)
                 ELSE 1
             credit == IF result * playerPerspective = 1 THEN WIN
                       ELSE IF result = 0 THEN DRAW
                       ELSE 0
         IN backpropagateEveryOther([tree EXCEPT ![current].visits = @ + 1,
                                                 ![current].wins = @ + credit],
                                    IF parent = noParent THEN noParent
                                    ELSE tree[parent].parent,
                                    result)

\* Mutant: the credit goes by the result alone, a win of O counts at every node.
RECURSIVE backpropagateGlobalSign(_, _, _)
backpropagateGlobalSign(tree, current, result) ==
    IF current = noParent THEN tree
    ELSE LET parent == tree[current].parent
             credit == IF result = 1 THEN WIN
                       ELSE IF result = 0 THEN DRAW
                       ELSE 0
         IN backpropagateGlobalSign([tree EXCEPT ![current].visits = @ + 1,
                                                 ![current].wins = @ + credit],
                                    parent, result)

\* MCTS_Agent.backpropagate(node, result), from `current` up to the root.
RECURSIVE backpropagate(_, _, _)
backpropagate(tree, current, result) ==
    IF current = noParent THEN tree
    ELSE LET parent == tree[current].parent
             playerPerspective ==
                 IF parent # noParent
                 THEN (IF tree[parent].playerToMove = PLAYER_O THEN 1 ELSE -1)
                 ELSE 1
             credit == IF result * playerPerspective = 1 THEN WIN
                       ELSE IF result = 0 THEN DRAW
                       ELSE 0
         IN backpropagate([tree EXCEPT ![current].visits = @ + 1,
                                       ![current].wins = @ + credit],
                          parent, result)

\* wins / visits as a fraction; -Infinity is -1/0, which the cross
\* multiplication below puts under every fraction.
Ratio(wins, visits) == [num |-> wins, den |-> visits]

RatioGreater(a, b) == a.num * b.den > b.num * a.den

RatioEqual(a, b) == a.num * b.den = b.num * a.den

\* Mutant: equal ratios are not compared by visits, the first best ratio stays.
RECURSIVE selectBestMoveNoTieBreak(_, _, _, _, _, _)
selectBestMoveNoTieBreak(tree, children, k, bestRatio, bestMove, mostVisits) ==
    IF k > Len(children) THEN bestMove
    ELSE LET child == tree[children[k]]
             ratio == Ratio(child.wins, child.visits)
         IN IF child.visits = 0
            THEN selectBestMoveNoTieBreak(tree, children, k + 1, bestRatio, bestMove, mostVisits)
            ELSE IF RatioGreater(ratio, bestRatio)
            THEN selectBestMoveNoTieBreak(tree, children, k + 1, ratio, child.move, child.visits)
            ELSE selectBestMoveNoTieBreak(tree, children, k + 1, bestRatio, bestMove, mostVisits)

\* The final for-loop of MCTS_Agent.selectMove over root.children.
RECURSIVE selectBestMove(_, _, _, _, _, _)
selectBestMove(tree, children, k, bestRatio, bestMove, mostVisits) ==
    IF k > Len(children) THEN bestMove
    ELSE LET child == tree[children[k]]
             ratio == Ratio(child.wins, child.visits)
         IN IF child.visits = 0
            THEN selectBestMove(tree, children, k + 1, bestRatio, bestMove, mostVisits)
            ELSE IF RatioGreater(ratio, bestRatio)
            THEN selectBestMove(tree, children, k + 1, ratio, child.move, child.visits)
            ELSE IF RatioEqual(ratio, bestRatio) /\ child.visits > mostVisits
            THEN selectBestMove(tree, children, k + 1, bestRatio, child.move, child.visits)
            ELSE selectBestMove(tree, children, k + 1, bestRatio, bestMove, mostVisits)

\* Mutant: array[1], the second element.
Second(array) == IF Len(array) <= 1 THEN undefined ELSE array[2]

\* array[0]
First(array) == IF Len(array) = 0 THEN undefined ELSE array[1]

\* Mutant: the final selection is left out, the fallback is always taken.
mctsResultFallbackOnly(tree, heap, boardArg) ==
    First(getAvailableMoves(heap[boardArg]))

\* What MCTS_Agent.selectMove returns after its iterations.
mctsResult(tree, heap, boardArg) ==
    LET bestMove == selectBestMove(tree, tree[1].children, 1, Ratio(-1, 0), -1, -1)
    IN IF bestMove # -1 THEN bestMove ELSE First(getAvailableMoves(heap[boardArg]))


\* ------------------------------------------------------------------------
\* State
\* ------------------------------------------------------------------------

VARIABLES
    heap,           \* the arrays: heap[r] is the 9-cell array in slot r
    currentPlayer,  \* TicTacToe.currentPlayer
    gameActive,     \* TicTacToe.gameActive
    dom,            \* TicTacToe.dom: the values of the page's selectors
    variant,        \* which of the two programs of script.js runs: 1 or 2
    scores,         \* TicTacToe.scores
    timers,         \* the setTimeout callbacks that have not fired yet
    pc,             \* "play", or the place inside a selectMove call
    agent,          \* the agent whose selectMove was called
    player,         \* the player passed to selectMove
    before,         \* the heap when selectMove was called
    ret,            \* what the call returned, notReturned before it does
    depth,          \* the depth passed to a call of minimax
    isMaximizing,   \* the flag passed to a call of minimax
    tree,           \* MCTS: the nodes; tree[1] is the root
    iterations,     \* MCTS_Agent.iterations
    i,              \* MCTS: the loop counter of selectMove
    node,           \* MCTS: the expanded node whose rollout is running
    sampled,        \* MCTS: how often backpropagate was called on each node
    tempBoard,      \* rollout: the slot of tempBoard
    currentTurn     \* rollout: currentTurn

driver == <<currentPlayer, gameActive, dom, variant, scores, timers>>

call == <<agent, player, before, ret, depth, isMaximizing>>

mcts == <<tree, iterations, i, node, sampled, tempBoard, currentTurn>>

vars == <<heap, driver, pc, call, mcts>>

\* Bounds of the model.
\* MinimaxAgent.selectMove is called on boards with at most this many empty cells.
MaxEmptyMinimax == 5

\* MinimaxAgent.minimax is called with a depth up to this.
MaxDepth == 2

\* The score of a running call of minimax is computed on boards with at
\* most this many empty cells.
MaxEmptyScored == 4

\* MCTS_Agent.selectMove is called on boards with at most this many empty cells
MaxEmptyMCTS == 2

\* with an iteration budget up to this,
MaxIterations == 4

\* and on the empty board with a budget up to this.
MaxIterationsEmptyBoard == 1

\* TicTacToe.board: the slot of the array made once by the constructor,
\* Array(9).fill(null); startGame refills it in place.
board == 1

\* What move holds while selectMove has not returned: a number that no call
\* returns, so that ret is a number in every state.
notReturned == -100

NoCall ==
    /\ pc = "play"
    /\ agent = null
    /\ player = null
    /\ before = <<>>
    /\ ret = notReturned
    /\ depth = 0
    /\ isMaximizing = FALSE

NoSearch ==
    /\ tree = <<>>
    /\ iterations = 0
    /\ i = 0
    /\ node = noParent
    /\ sampled = <<>>
    /\ tempBoard = 0
    /\ currentTurn = null

\* ------------------------------------------------------------------------
\* The driver: class TicTacToe
\* ------------------------------------------------------------------------

\* The selectors of the page: mode, level, who starts and, in the second
\* program, the agents of the two sides in ia-ia mode.
Selectors(modeSelect, levelSelect, starterSelect, iaXSelect, iaOSelect) ==
    [modeSelect |-> modeSelect, levelSelect |-> levelSelect,
     starterSelect |-> starterSelect,
     iaXSelect |-> iaXSelect, iaOSelect |-> iaOSelect]

\* this.scores as the constructor makes it.
NoScores ==
    IF variant = 1 THEN [c \in {"X", "O"} |-> 0]
    ELSE [c \in {"X", "O", "T"} |-> 0]

\* The games counted on the scoreboard.
Counted == IF variant = 1 THEN scores["X"] + scores["O"]
           ELSE scores["X"] + scores["O"] + scores["T"]

\* The fields of `this` that the handlers read and write.
This ==
    [heap |-> heap, currentPlayer |-> currentPlayer, gameActive |-> gameActive,
     scores |-> scores, timers |-> timers]

\* The handler leaves `this` as the record says.
Becomes(this) ==
    /\ heap' = this.heap
    /\ currentPlayer' = this.currentPlayer
    /\ gameActive' = this.gameActive
    /\ scores' = this.scores
    /\ timers' = this.timers

\* TicTacToe.getAgent(player): the agent that plays the side, null for a human.
getAgent(p) ==
    IF dom.modeSelect = "humano-humano" THEN null
    ELSE IF dom.modeSelect = "ia-ia"
    THEN (IF variant = 1
          THEN (IF p = PLAYER_X THEN "random" ELSE dom.levelSelect)
          ELSE (IF p = PLAYER_X THEN dom.iaXSelect ELSE dom.iaOSelect))
    ELSE IF p = PLAYER_X /\ dom.starterSelect = "maquina" THEN dom.levelSelect
    ELSE IF p = PLAYER_O /\ dom.starterSelect # "maquina" THEN dom.levelSelect
    ELSE null

\* The side that the MinimaxAgent plays against a human, or null.
minimaxSide ==
    IF dom.modeSelect = "humano-ia" /\ dom.levelSelect = "minimax"
    THEN (IF dom.starterSelect = "maquina" THEN PLAYER_X ELSE PLAYER_O)
    ELSE null

\* TicTacToe.updateScores(winner)
updateScores(s, winner) ==
    IF winner = PLAYER_X THEN [s EXCEPT !["X"] = @ + 1]
    ELSE IF winner = PLAYER_O THEN [s EXCEPT !["O"] = @ + 1]
    ELSE IF variant = 1 THEN s
    ELSE [s EXCEPT !["T"] = @ + 1]

\* Mutant: makeMove sets no timer for the machine that moves next.
makeMoveNoTimeout(this, index) ==
    IF ~this.gameActive THEN this
    ELSE LET h1 == store(this.heap, board, index, this.currentPlayer)
             winner == checkWin(h1[board])
             next == Other(this.currentPlayer)
         IN IF winner # null \/ checkTie(h1[board])
            THEN [this EXCEPT !.heap = h1, !.gameActive = FALSE,
                              !.scores = IF winner # null THEN updateScores(@, winner)
                                         ELSE IF variant = 1 THEN @
                                         ELSE updateScores(@, null)]
            ELSE [this EXCEPT !.heap = h1, !.currentPlayer = next]

\* Mutant: only a tie ends the game, a win does not.
makeMoveUntilTie(this, index) ==
    IF ~this.gameActive THEN this
    ELSE LET h1 == store(this.heap, board, index, this.currentPlayer)
             next == Other(this.currentPlayer)
         IN IF checkTie(h1[board])
            THEN [this EXCEPT !.heap = h1, !.gameActive = FALSE,
                              !.scores = IF variant = 1 THEN @ ELSE updateScores(@, null)]
            ELSE [this EXCEPT !.heap = h1, !.currentPlayer = next,
                              !.timers = IF getAgent(next) # null THEN @ + 1 ELSE @]

\* Mutant: the game goes on with the same currentPlayer.
makeMoveSamePlayer(this, index) ==
    IF ~this.gameActive THEN this
    ELSE LET h1 == store(this.heap, board, index, this.currentPlayer)
             winner == checkWin(h1[board])
         IN IF winner # null \/ checkTie(h1[board])
            THEN [this EXCEPT !.heap = h1, !.gameActive = FALSE,
                              !.scores = IF winner # null THEN updateScores(@, winner)
                                         ELSE IF variant = 1 THEN @
                                         ELSE updateScores(@, null)]
            ELSE [this EXCEPT !.heap = h1,
                              !.timers = IF getAgent(this.currentPlayer) # null
                                         THEN @ + 1 ELSE @]

\* Mutant: only a win ends the game, a tie does not.
makeMoveUntilWin(this, index) ==
    IF ~this.gameActive THEN this
    ELSE LET h1 == store(this.heap, board, index, this.currentPlayer)
             winner == checkWin(h1[board])
             next == Other(this.currentPlayer)
         IN IF winner # null
            THEN [this EXCEPT !.heap = h1, !.gameActive = FALSE,
                              !.scores = updateScores(@, winner)]
            ELSE [this EXCEPT !.heap = h1, !.currentPlayer = next,
                              !.timers = IF getAgent(next) # null THEN @ + 1 ELSE @]

\* TicTacToe.makeMove(cell, index): `this` as the call leaves it.  In the
\* first program a tie does not call updateScores.
makeMove(this, index) ==
    IF ~this.gameActive THEN this
    ELSE LET h1 == store(this.heap, board, index, this.currentPlayer)
             winner == checkWin(h1[board])
             next == Other(this.currentPlayer)
         IN IF winner # null \/ checkTie(h1[board])
            THEN [this EXCEPT !.heap = h1, !.gameActive = FALSE,
                              !.scores = IF winner # null THEN updateScores(@, winner)
                                         ELSE IF variant = 1 THEN @
                                         ELSE updateScores(@, null)]
            ELSE [this EXCEPT !.heap = h1, !.currentPlayer = next,
                              !.timers = IF getAgent(next) # null THEN @ + 1 ELSE @]

\* Mutant: iaTurn does not ask whether the side has an agent and lets the
\* RandomAgent move.
iaTurnForAnySide(this) ==
    IF ~this.gameActive THEN {this}
    ELSE {IF move # -1 THEN makeMove(this, move) ELSE this :
             move \in RandomSelectMove(this.heap, board)}

\* TicTacToe.iaTurn(): every `this` the call can leave.  The calls of the
\* MCTS_Agent are the actions further down; the driver's turns here are
\* those of the other two agents.
iaTurn(this) ==
    IF ~this.gameActive \/ getAgent(this.currentPlayer) = null THEN {this}
    ELSE IF getAgent(this.currentPlayer) = "minimax"
    THEN {IF r.move # -1 THEN makeMove([this EXCEPT !.heap = r.heap], r.move)
                         ELSE [this EXCEPT !.heap = r.heap] :
             r \in {MinimaxSelectMove(this.heap, board, this.currentPlayer)}}
    ELSE IF getAgent(this.currentPlayer) = "random"
    THEN {IF move # -1 THEN makeMove(this, move) ELSE this :
             move \in RandomSelectMove(this.heap, board)}
    ELSE {}

\* The state the constructor leaves: the page is loaded, no game yet.
constructed ==
    /\ heap = <<EmptyBoard>>
    /\ currentPlayer = PLAYER_X
    /\ gameActive = FALSE
    /\ scores = NoScores
    /\ timers = 0

\* Bounds of the driver: startGame is not called again once this many
\* games are on the scoreboard,
MaxGames == 2

\* nor while this many callbacks are pending.
MaxTimers == 2

\* TicTacToe.startGame(): the first program calls iaTurn itself when a
\* machine starts, the second leaves that to a setTimeout callback.
startGame ==
    /\ pc = "play"
    /\ Counted < MaxGames
    /\ timers < MaxTimers
    /\ \E fresh \in {[This EXCEPT !.heap = [heap EXCEPT ![board] = EmptyBoard],
                                  !.gameActive = TRUE,
                                  !.currentPlayer = PLAYER_X]} :
          IF dom.modeSelect = "ia-ia"
             \/ (dom.modeSelect = "humano-ia" /\ dom.starterSelect = "maquina")
          THEN IF variant = 1
               THEN \E this \in iaTurn(fresh) : Becomes(this)
               ELSE Becomes([fresh EXCEPT !.timers = @ + 1])
          ELSE Becomes(fresh)
    /\ UNCHANGED <<dom, variant, pc, call, mcts>>

\* Mutant: the click does not look at the cell's content.
handleCellClickAnyCell(index) ==
    /\ pc = "play"
    /\ gameActive
    /\ dom.modeSelect # "ia-ia"
    /\ getAgent(currentPlayer) = null
    /\ Becomes(makeMove(This, index))
    /\ UNCHANGED <<dom, variant, pc, call, mcts>>

\* TicTacToe.handleCellClick on cell index.
handleCellClick(index) ==
    /\ pc = "play"
    /\ gameActive
    /\ heap[board][index] = null
    /\ dom.modeSelect # "ia-ia"
    /\ getAgent(currentPlayer) = null
    /\ Becomes(makeMove(This, index))
    /\ UNCHANGED <<dom, variant, pc, call, mcts>>

\* A setTimeout callback fires: that of makeMove calls iaTurn if the game
\* is active, that of startGame calls iaTurn, which returns if it is not.
setTimeoutCallback ==
    /\ pc = "play"
    /\ timers > 0
    /\ \E this \in iaTurn([This EXCEPT !.timers = @ - 1]) : Becomes(this)
    /\ UNCHANGED <<dom, variant, pc, call, mcts>>

\* A game in which one side is played by the MinimaxAgent and the other
\* side by clicks, from the loaded page of the first program.
GameInit ==
    /\ variant = 1
    /\ dom \in {Selectors("humano-ia", "minimax", starterSelect, "random", "mcts") :
                   starterSelect \in {"humano", "maquina"}}
    /\ constructed
    /\ NoCall
    /\ NoSearch

GameNext ==
    \/ constructed /\ startGame
    \/ \E index \in Cells : handleCellClick(index)
    \/ setTimeoutCallback

SpecGame == GameInit /\ [][GameNext]_vars

\* A game in which both sides are played by clicks, after startGame.
PlayInit ==
    /\ variant = 1
    /\ dom = Selectors("humano-humano", "minimax", "humano", "random", "mcts")
    /\ heap = <<EmptyBoard>>
    /\ currentPlayer = PLAYER_X
    /\ gameActive = TRUE
    /\ scores = NoScores
    /\ timers = 0
    /\ NoCall
    /\ NoSearch

PlayNext == \E index \in Cells : handleCellClick(index)

SpecPlay == PlayInit /\ [][PlayNext]_vars

\* The driver in every mode, with games started again at any moment.  The
\* machine's level is random: every legal move is a move it can make.
Configurations ==
    {Selectors("humano-humano", "random", "humano", "random", "random"),
     Selectors("humano-ia", "random", "humano", "random", "random"),
     Selectors("humano-ia", "random", "maquina", "random", "random"),
     Selectors("ia-ia", "random", "humano", "random", "random")}

DriverInit ==
    /\ variant \in {1, 2}
    /\ dom \in Configurations
    /\ constructed
    /\ NoCall
    /\ NoSearch

DriverNext ==
    \/ startGame
    \/ \E index \in Cells : handleCellClick(index)
    \/ setTimeoutCallback

SpecDriver == DriverInit /\ [][DriverNext]_vars

\* The user picks other values in the selectors of the page.  The handlers
\* read the selectors' values when they run; here the values change only
\* while no game is active.
changeSelectors ==
    /\ pc = "play"
    /\ ~gameActive
    /\ dom' \in Configurations \ {dom}
    /\ UNCHANGED <<heap, currentPlayer, gameActive, variant, scores, timers, pc, call, mcts>>

\* The driver with the selectors changed between games.
SelectNext ==
    \/ DriverNext
    \/ changeSelectors

SpecDriverSelect == DriverInit /\ [][SelectNext]_vars

\* The event loop of the browser runs the callback of every timer once its
\* delay has passed, so no pending callback is left waiting forever: again
\* and again no callback is pending or one is run.  This is weak fairness
\* of setTimeoutCallback, which is enabled exactly while timers > 0.
timersFire == []<>(timers = 0) \/ []<><<setTimeoutCallback>>_vars

\* The driver under that event loop.
SpecDriverFair == SpecDriver /\ timersFire


\* ------------------------------------------------------------------------
\* Calls of agent.selectMove(this.board, player) on the boards of play
\* ------------------------------------------------------------------------

EmptyCells(b) == {idx \in Cells : b[idx] = null}

\* RandomAgent.selectMove(board); the second argument is ignored.
CallRandom(p) ==
    /\ pc = "play"
    /\ \E move \in RandomSelectMove(heap, board) : ret' = move
    /\ pc' = "returned"
    /\ agent' = "random"
    /\ player' = p
    /\ before' = heap
    /\ UNCHANGED <<heap, driver, depth, isMaximizing, mcts>>

\* MinimaxAgent.selectMove(board, player)
CallMinimax(p) ==
    /\ pc = "play"
    /\ Cardinality(EmptyCells(heap[board])) <= MaxEmptyMinimax
    /\ \E r \in {MinimaxSelectMove(heap, board, p)} :
          /\ heap' = r.heap
          /\ ret' = r.move
    /\ pc' = "returned"
    /\ agent' = "minimax"
    /\ player' = p
    /\ before' = heap
    /\ UNCHANGED <<driver, depth, isMaximizing, mcts>>

\* MCTS_Agent.selectMove(board, player) up to its loop: the root is made.
CallMCTS(p, budget) ==
    /\ pc = "play"
    /\ \/ Cardinality(EmptyCells(heap[board])) <= MaxEmptyMCTS
       \/ heap[board] = EmptyBoard /\ budget <= MaxIterationsEmptyBoard
    /\ \E root \in {MCTSNode(heap, board, p, noParent, null)} :
          /\ heap' = root.heap
          /\ tree' = <<root.node>>
    /\ sampled' = <<0>>
    /\ iterations' = budget
    /\ i' = 0
    /\ pc' = "iterate"
    /\ agent' = "mcts"
    /\ player' = p
    /\ before' = heap
    /\ UNCHANGED <<driver, ret, depth, isMaximizing, node, tempBoard, currentTurn>>

\* Mutant: the pass looks only for a tie, a won board is expanded.
MCTSIterateNoWinCheck ==
    /\ pc = "iterate"
    /\ i < iterations
    /\ \E selected \in {selectNode(tree, 1)} :
          IF ~checkTie(heap[tree[selected].board])
          THEN \E e \in {expandNode(tree, heap, selected)} :
                  IF e.child # noParent
                  THEN \E t \in {spread(e.heap, e.tree[e.child].board)} :
                          /\ heap' = t.heap
                          /\ tempBoard' = t.ref
                          /\ currentTurn' = e.tree[e.child].playerToMove
                          /\ node' = e.child
                          /\ tree' = e.tree
                          /\ sampled' = Append(sampled, 0)
                          /\ pc' = "rollout"
                          /\ UNCHANGED i
                  ELSE /\ i' = i + 1
                       /\ UNCHANGED <<heap, tree, node, sampled, tempBoard, currentTurn, pc>>
          ELSE /\ tree' = backpropagate(tree, selected,
                                        rolloutResult(heap[tree[selected].board]))
               /\ sampled' = [sampled EXCEPT ![selected] = @ + 1]
               /\ i' = i + 1
               /\ UNCHANGED <<heap, node, tempBoard, currentTurn, pc>>
    /\ UNCHANGED <<driver, call, iterations>>

\* One pass of the loop of MCTS_Agent.selectMove up to the rollout: select,
\* then expand and enter rollout, or backpropagate the terminal result.
MCTSIterate ==
    /\ pc = "iterate"
    /\ i < iterations
    /\ \E selected \in {selectNode(tree, 1)} :
          IF checkWin(heap[tree[selected].board]) = null
             /\ ~checkTie(heap[tree[selected].board])
          THEN \E e \in {expandNode(tree, heap, selected)} :
                  IF e.child # noParent
                  THEN \E t \in {spread(e.heap, e.tree[e.child].board)} :
                          /\ heap' = t.heap
                          /\ tempBoard' = t.ref
                          /\ currentTurn' = e.tree[e.child].playerToMove
                          /\ node' = e.child
                          /\ tree' = e.tree
                          /\ sampled' = Append(sampled, 0)
                          /\ pc' = "rollout"
                          /\ UNCHANGED i
                  ELSE /\ i' = i + 1
                       /\ UNCHANGED <<heap, tree, node, sampled, tempBoard, currentTurn, pc>>
          ELSE /\ tree' = backpropagate(tree, selected,
                                        rolloutResult(heap[tree[selected].board]))
               /\ sampled' = [sampled EXCEPT ![selected] = @ + 1]
               /\ i' = i + 1
               /\ UNCHANGED <<heap, node, tempBoard, currentTurn, pc>>
    /\ UNCHANGED <<driver, call, iterations>>

\* Mutant: the loop looks only for an empty cell and plays on after a win.
rolloutGoesOnToFull == Len(getAvailableMoves(heap[tempBoard])) # 0

\* The while-condition of rollout.
rolloutGoesOn ==
    /\ checkWin(heap[tempBoard]) = null
    /\ ~checkTie(heap[tempBoard])
    /\ Len(getAvailableMoves(heap[tempBoard])) # 0

\* One pass of the while-loop of rollout: a random move for currentTurn.
MCTSRolloutStep ==
    /\ pc = "rollout"
    /\ rolloutGoesOn
    /\ \E moves \in {getAvailableMoves(heap[tempBoard])} :
          \E randomIndex \in 1..Len(moves) :
             heap' = store(heap, tempBoard, moves[randomIndex], currentTurn)
    /\ currentTurn' = (IF currentTurn = PLAYER_X THEN PLAYER_O ELSE PLAYER_X)
    /\ UNCHANGED <<driver, pc, call, tree, iterations, i, node, sampled, tempBoard>>

\* The highest slot that the driver or a node refers to.
RECURSIVE HighestBoard(_, _)
HighestBoard(nodes, k) ==
    IF k > Len(nodes) THEN board
    ELSE Max(nodes[k].board, HighestBoard(nodes, k + 1))

\* The end of rollout and the backpropagation of its result; tempBoard goes
\* out of scope.
MCTSRolloutEnd ==
    /\ pc = "rollout"
    /\ ~rolloutGoesOn
    /\ tree' = backpropagate(tree, node, rolloutResult(heap[tempBoard]))
    /\ sampled' = [sampled EXCEPT ![node] = @ + 1]
    /\ heap' = release(heap, HighestBoard(tree, 1))
    /\ i' = i + 1
    /\ node' = noParent
    /\ tempBoard' = 0
    /\ currentTurn' = null
    /\ pc' = "iterate"
    /\ UNCHANGED <<driver, call, iterations>>

\* The end of MCTS_Agent.selectMove: the final selection.  The tree is kept
\* as the call left it.
MCTSFinal ==
    /\ pc = "iterate"
    /\ i >= iterations
    /\ ret' = mctsResult(tree, heap, board)
    /\ pc' = "returned"
    /\ UNCHANGED <<heap, driver, agent, player, before, depth, isMaximizing, mcts>>

MCTSNext ==
    \/ \E p \in {PLAYER_X, PLAYER_O} : \E budget \in 0..MaxIterations : CallMCTS(p, budget)
    \/ MCTSIterate
    \/ MCTSRolloutStep
    \/ MCTSRolloutEnd
    \/ MCTSFinal

\* Every agent on the boards of play.
AgentsNext ==
    \/ PlayNext
    \/ \E p \in {PLAYER_X, PLAYER_O} : CallRandom(p)
    \/ \E p \in {PLAYER_X, PLAYER_O} : CallMinimax(p)
    \/ MCTSNext

SpecAgents == PlayInit /\ [][AgentsNext]_vars

\* The MinimaxAgent on the boards of play.
MinimaxNext ==
    \/ PlayNext
    \/ \E p \in {PLAYER_X, PLAYER_O} : CallMinimax(p)

SpecMinimax == PlayInit /\ [][MinimaxNext]_vars

\* MinimaxAgent.minimax(board, isMaximizing, depth) on a board of play, with
\* either flag and a depth up to MaxDepth.
CallMinimaxAt(flag, d) ==
    /\ pc = "play"
    /\ Cardinality(EmptyCells(heap[board])) <= MaxEmptyMinimax
    /\ \E r \in {minimax(heap, board, flag, d)} :
          /\ heap' = r.heap
          /\ ret' = r.score
    /\ pc' = "returned"
    /\ agent' = "minimax.minimax"
    /\ isMaximizing' = flag
    /\ depth' = d
    /\ before' = heap
    /\ UNCHANGED <<driver, player, mcts>>

MinimaxCallNext ==
    \/ PlayNext
    \/ \E flag \in BOOLEAN : \E d \in 0..MaxDepth : CallMinimaxAt(flag, d)

SpecMinimaxCalls == PlayInit /\ [][MinimaxCallNext]_vars

\* The calls of minimax that one call of MinimaxAgent.selectMove makes, one
\* call at a time.  The driver calls selectMove(this.board, currentPlayer)
\* in an active game; a pass of its loop copies the board, places player's
\* marker and calls minimax with !isMaximizing and depth 0.  Slot 2 holds the
\* board of the call of minimax that is running; the boards of the calls
\* above it, which it never reads, are left out.
MinimaxEnter ==
    /\ pc = "play"
    /\ gameActive
    /\ \E move \in EmptyCells(heap[board]) :
          \E nb \in {spread(heap, board)} :
             heap' = store(nb.heap, nb.ref, move, currentPlayer)
    /\ pc' = "minimax"
    /\ agent' = "minimax"
    /\ player' = currentPlayer
    /\ isMaximizing' = ~(currentPlayer = PLAYER_O)
    /\ depth' = 0
    /\ before' = heap
    /\ UNCHANGED <<driver, ret, mcts>>

\* A pass of the loop of the running call of minimax: it copies its board,
\* places the marker of playerToMove and calls minimax one level down.
MinimaxDescend ==
    /\ pc = "minimax"
    /\ checkWin(heap[2]) = null
    /\ ~checkTie(heap[2])
    /\ \E move \in EmptyCells(heap[2]) :
          heap' = store(heap, 2, move, IF isMaximizing THEN PLAYER_O ELSE PLAYER_X)
    /\ isMaximizing' = ~isMaximizing
    /\ depth' = depth + 1
    /\ UNCHANGED <<driver, pc, agent, player, before, ret, mcts>>

MinimaxTreeNext ==
    \/ PlayNext
    \/ MinimaxEnter
    \/ MinimaxDescend

SpecMinimaxTree == PlayInit /\ [][MinimaxTreeNext]_vars

\* The MCTS_Agent on the boards of play.
SearchNext ==
    \/ PlayNext
    \/ MCTSNext

SpecMCTS == PlayInit /\ [][SearchNext]_vars

\* The steps of a selectMove call that has begun.  selectMove is one
\* synchronous call: nothing else runs until it returns, so a step that can
\* be taken is taken.
MCTSCallRuns ==
    \/ MCTSIterate
    \/ MCTSRolloutStep
    \/ MCTSRolloutEnd
    \/ MCTSFinal

SpecMCTSFair == SpecMCTS /\ WF_vars(MCTSCallRuns)


\* getAvailableMoves on every 9-cell board.
BoardsInit ==
    /\ heap \in {<<b>> : b \in [Cells -> {PLAYER_X, PLAYER_O, null}]}
    /\ currentPlayer = PLAYER_X
    /\ gameActive = FALSE
    /\ variant = 1
    /\ dom = Selectors("humano-humano", "minimax", "humano", "random", "mcts")
    /\ scores = NoScores
    /\ timers = 0
    /\ NoCall
    /\ NoSearch

CallGetAvailableMoves ==
    /\ pc = "play"
    /\ ret' = getAvailableMoves(heap[board])
    /\ pc' = "returned"
    /\ agent' = "getAvailableMoves"
    /\ before' = heap
    /\ UNCHANGED <<heap, driver, player, depth, isMaximizing, mcts>>

SpecBoards == BoardsInit /\ [][CallGetAvailableMoves]_vars

\* ------------------------------------------------------------------------
\* Properties
\* ------------------------------------------------------------------------

\* C1: in every game from the empty board in which one side plays the
\* moves of MinimaxAgent.selectMove and the other side plays any legal move,
\* the other side never has a winning line: the minimax side never loses.
MinimaxNeverLoses == checkWin(heap[board]) # Other(minimaxSide)

\* A game played to the end against the agent as O, drawn on a full board.
MinimaxGameDrawn ==
    /\ minimaxSide = PLAYER_O
    /\ ~gameActive
    /\ checkTie(heap[board])

\* C2: on a board with an empty cell, selectMove of each agent returns the
\* index of a cell that is empty in the board it was given.
ReturnsEmptyCell ==
    (pc = "returned" /\ EmptyCells(before[board]) # {})
        => (ret \in Cells /\ before[board][ret] = null)

\* The MCTS agent returned after a search that went through selectNode's
\* descent, on a board that still had two empty cells.
MCTSReturnedAfterSearch ==
    /\ pc = "returned"
    /\ agent = "mcts"
    /\ Cardinality(EmptyCells(before[board])) = 2
    /\ iterations >= 3
    /\ Len(tree) >= 3
    /\ ret \in EmptyCells(before[board])

\* C3: on a board with no empty cell, selectMove of every agent returns
\* the sentinel -1.
FullBoardReturnsSentinel ==
    (pc = "returned" /\ EmptyCells(before[board]) = {}) => ret = -1

\* C4: selectMove leaves the caller's board as it was; no node's board is
\* the caller's array or another node's array or the rollout's array; the
\* root's board holds the cells of the caller's board and every other
\* node's board holds those of its parent's board but for the node's move,
\* so no marker was ever placed on an array that was not a fresh copy.
NodeBoardIsCopy(n) ==
    /\ tree[n].board # board
    /\ \A m \in 1..Len(tree) : m # n => tree[m].board # tree[n].board
    /\ pc = "rollout" => tempBoard # tree[n].board
    /\ IF tree[n].parent = noParent
       THEN heap[tree[n].board] = before[board]
       ELSE /\ heap[tree[tree[n].parent].board][tree[n].move] = null
            /\ \A idx \in Cells \ {tree[n].move} :
                  heap[tree[n].board][idx] = heap[tree[tree[n].parent].board][idx]

CallerBoardUntouched ==
    pc # "play" =>
        /\ heap[board] = before[board]
        /\ pc = "rollout" => tempBoard # board
        /\ \A n \in 1..Len(tree) : NodeBoardIsCopy(n)

\* The rollout of the root's second child has placed a marker on tempBoard.
RolloutPlacedMarker ==
    /\ pc = "rollout"
    /\ Len(tree) >= 3
    /\ heap[tempBoard] # heap[tree[node].board]

\* C5: MinimaxAgent.selectMove on a board with an empty cell returns the
\* lowest empty cell among those whose resulting position has the best
\* minimax score for player (the maximum for O, the minimum for X).
ScoreAfter(b, p, move) ==
    minimax(<<[b EXCEPT ![move] = p]>>, 1, p # PLAYER_O, 0).score

MinimaxPicksFirstBest ==
    (pc = "returned" /\ agent = "minimax" /\ EmptyCells(before[board]) # {}) =>
        /\ ret \in EmptyCells(before[board])
        /\ LET chosen == ScoreAfter(before[board], player, ret)
           IN \A move \in EmptyCells(before[board]) :
                 LET score == ScoreAfter(before[board], player, move)
                 IN /\ IF player = PLAYER_O THEN score <= chosen ELSE score >= chosen
                    /\ move < ret => score # chosen

\* The agent returned a cell that is not the lowest empty one, while a
\* higher cell has the same score.
MinimaxPassedOverAndTied ==
    /\ pc = "returned"
    /\ agent = "minimax"
    /\ \E low, high \in EmptyCells(before[board]) :
          /\ low < ret
          /\ ret < high
          /\ ScoreAfter(before[board], player, high)
                 = ScoreAfter(before[board], player, ret)

\* C6: when the board is not terminal and player has an empty cell that
\* completes a line of its own marker, MinimaxAgent.selectMove returns such
\* a cell; on [X,X,_,O,O,_,_,_,_] with X to move it returns 2.
WinningCells(b, p) == {idx \in EmptyCells(b) : checkWin([b EXCEPT ![idx] = p]) = p}

Scenario2Board ==
    [idx \in Cells |-> IF idx \in {0, 1} THEN PLAYER_X
                       ELSE IF idx \in {3, 4} THEN PLAYER_O
                       ELSE null]

MinimaxTakesWin ==
    (pc = "returned" /\ agent = "minimax") =>
        /\ (/\ checkWin(before[board]) = null
            /\ WinningCells(before[board], player) # {})
               => ret \in WinningCells(before[board], player)
        /\ (before[board] = Scenario2Board /\ player = PLAYER_X) => ret = 2

\* Scenario 2 was played and answered.
Scenario2Answered ==
    /\ pc = "returned"
    /\ agent = "minimax"
    /\ before[board] = Scenario2Board
    /\ player = PLAYER_X
    /\ ret = 2

\* C7: on every board of alternating legal play from the empty board, X
\* first, play stopping at a win or a full board, every complete line holds
\* the marker checkWin returns: at most one marker has a complete line, so
\* the scan order of the 8 lines does not matter.
OneWinner ==
    \A k \in 1..Len(WINNING_COMBOS) :
        isWon(heap[board], WINNING_COMBOS[k])
            => heap[board][WINNING_COMBOS[k][1]] = checkWin(heap[board])

\* A board of play with two complete lines.
TwoLinesComplete ==
    \E k1, k2 \in 1..Len(WINNING_COMBOS) :
        /\ k1 # k2
        /\ isWon(heap[board], WINNING_COMBOS[k1])
        /\ isWon(heap[board], WINNING_COMBOS[k2])

\* C8: for every 9-cell board getAvailableMoves returns exactly the indices
\* of the empty cells, each once and in ascending order; its length plus the
\* number of occupied cells is 9, and it is empty exactly on a full board.
AvailableMovesExact ==
    (pc = "returned" /\ agent = "getAvailableMoves") =>
        /\ {ret[k] : k \in 1..Len(ret)} = EmptyCells(before[board])
        /\ \A k \in 1..(Len(ret) - 1) : ret[k] < ret[k + 1]
        /\ Len(ret) + Cardinality(Cells \ EmptyCells(before[board])) = 9
        /\ (Len(ret) = 0) <=> (\A idx \in Cells : before[board][idx] # null)

\* getAvailableMoves returned several cells, cell 0 among them.
AvailableMovesSeveral ==
    /\ pc = "returned"
    /\ agent = "getAvailableMoves"
    /\ Len(ret) >= 3
    /\ ret[1] = 0
    /\ Len(ret) < 9

\* C9: after the iterations of MCTS_Agent.selectMove, when the root has a
\* visited child, the returned move is the move of a visited root child
\* with the highest wins/visits, and among the children with that ratio one
\* with the highest visit count.
VisitedRootChildren == {c \in 1..Len(tree) : tree[c].parent = 1 /\ tree[c].visits > 0}

MCTSReturnsBestChild ==
    (pc = "returned" /\ agent = "mcts" /\ VisitedRootChildren # {}) =>
        \E c \in VisitedRootChildren :
            /\ tree[c].move = ret
            /\ \A d \in VisitedRootChildren :
                  /\ tree[c].wins * tree[d].visits >= tree[d].wins * tree[c].visits
                  /\ tree[c].wins * tree[d].visits = tree[d].wins * tree[c].visits
                        => tree[c].visits >= tree[d].visits

\* The tie on the ratio was broken by visits: the returned child is not the
\* first of the root's children, which has the same ratio and fewer visits.
MCTSTieBrokenByVisits ==
    /\ pc = "returned"
    /\ agent = "mcts"
    /\ Len(tree[1].children) = 2
    /\ LET first == tree[tree[1].children[1]]
           second == tree[tree[1].children[2]]
       IN /\ ret = second.move
          /\ first.visits > 0
          /\ first.wins * second.visits = second.wins * first.visits
          /\ second.visits > first.visits

\* C10 as stated: with a budget of 1 on the empty board the call returns a
\* legal cell and it does so through the fallback, the first move of
\* getAvailableMoves, not through a visited root child.
TinyBudgetTakesFallback ==
    (pc = "returned" /\ agent = "mcts" /\ before[board] = EmptyBoard /\ iterations = 1) =>
        /\ ret \in EmptyCells(before[board])
        /\ VisitedRootChildren = {}
        /\ ret = getAvailableMoves(before[board])[1]

\* C10 amended: with a budget of 1 on the empty board the call returns a
\* legal cell, never the sentinel, and it is the move of the one root child
\* that the iteration expanded and visited: cell 8, the last of
\* getAvailableMoves, not the fallback's cell 0.
TinyBudgetReturnsChild ==
    (pc = "returned" /\ agent = "mcts" /\ before[board] = EmptyBoard /\ iterations = 1) =>
        /\ ret \in EmptyCells(before[board])
        /\ ret # -1
        /\ Len(tree[1].children) = 1
        /\ VisitedRootChildren = {tree[1].children[1]}
        /\ tree[tree[1].children[1]].visits = 1
        /\ ret = tree[tree[1].children[1]].move
        /\ ret = 8

\* The call with a budget of 1 on the empty board returned.
TinyBudgetReturned ==
    /\ pc = "returned"
    /\ agent = "mcts"
    /\ before[board] = EmptyBoard
    /\ iterations = 1
    /\ i = 1

\* C11: every call of MCTS_Agent.selectMove returns, after exactly
\* `iterations` passes of its loop: the passes done so far are the visits
\* of the root (each pass ends in one backpropagation that reaches the
\* root, none is skipped), and at the final selection root.visits equals
\* `iterations`.
MCTSRunsFullBudget ==
    /\ [](agent = "mcts" =>
            /\ tree[1].visits = i
            /\ i <= iterations
            /\ pc = "returned" => i = iterations)
    /\ (agent = "mcts") ~> (pc = "returned" /\ tree[1].visits = iterations)

\* A call returned after its full budget, one pass of which ended at a
\* terminal node without expanding.
MCTSRanFullBudget ==
    /\ pc = "returned"
    /\ agent = "mcts"
    /\ iterations = MaxIterations
    /\ tree[1].visits = MaxIterations
    /\ Len(tree) >= 3
    /\ Len(tree) <= iterations

\* C12: each time a game ends (gameActive goes from true to false) exactly
\* one counter of the scoreboard goes up, by one: X's on an X win, O's on an
\* O win, the tie counter on a draw; and no counter changes in any other
\* step: not on a move that does not end the game, not on startGame, not
\* when a callback fires after the game is over.
CounterOf(winner) ==
    IF winner = PLAYER_X THEN "X" ELSE IF winner = PLAYER_O THEN "O" ELSE "T"

GameEndCountedOnce ==
    [][IF gameActive /\ ~gameActive'
       THEN /\ CounterOf(checkWin(heap'[board])) \in DOMAIN scores
            /\ scores' = [scores EXCEPT ![CounterOf(checkWin(heap'[board]))] = @ + 1]
       ELSE scores' = scores]_vars

\* C13 as stated: for each legal move MinimaxAgent.selectMove scores the
\* board with player's marker placed there by minimax with maximizing =
\* (player is O) and depth 0.
ScoreWithFlag(move, maximizing) ==
    minimax(<<[before[board] EXCEPT ![move] = player]>>, 1, maximizing, 0).score

ScoredByMinimaxOf(maximizing) ==
    LET moves == getAvailableMoves(before[board])
        scored == MinimaxSelectMove(before, board, player).scored
    IN /\ Len(scored) = Len(moves)
       /\ \A k \in 1..Len(moves) : scored[k] = ScoreWithFlag(moves[k], maximizing)

MinimaxScoresWithOwnFlag ==
    (pc = "returned" /\ agent = "minimax") => ScoredByMinimaxOf(player = PLAYER_O)

\* C13 amended: the flag is that of the opponent, who moves next:
\* maximizing = (player is not O), that is (player is X); depth is 0.
MinimaxScoresWithOpponentFlag ==
    (pc = "returned" /\ agent = "minimax") => ScoredByMinimaxOf(player # PLAYER_O)

\* selectMove scored three moves or more, one of them differently from
\* what minimax gives with the flag (player is O).
MinimaxScoredSeveralMoves ==
    /\ pc = "returned"
    /\ agent = "minimax"
    /\ Cardinality(EmptyCells(before[board])) >= 3
    /\ \E move \in EmptyCells(before[board]) :
          ScoreWithFlag(move, player = PLAYER_O) # ScoreWithFlag(move, player # PLAYER_O)

\* C14: minimax at depth d returns 10 - d on a terminal board where O has a
\* line, -10 + d where X has a line, 0 on a full board without a winner;
\* on any other board it returns the maximum (maximizing) or the minimum
\* (minimizing) over the empty cells of minimax on the board with O's
\* (maximizing) or X's marker placed there, the flag flipped, depth d + 1.
ScoreBelow(b, flag, d, cell) ==
    minimax(<<[b EXCEPT ![cell] = IF flag THEN PLAYER_O ELSE PLAYER_X]>>,
            1, ~flag, d + 1).score

MinimaxEquation ==
    (pc = "returned" /\ agent = "minimax.minimax") =>
        LET b == before[board]
            below == {ScoreBelow(b, isMaximizing, depth, cell) : cell \in EmptyCells(b)}
        IN IF checkWin(b) = PLAYER_O THEN ret = 10 - depth
           ELSE IF checkWin(b) = PLAYER_X THEN ret = -10 + depth
           ELSE IF EmptyCells(b) = {} THEN ret = 0
           ELSE /\ ret \in below
                /\ \A score \in below : IF isMaximizing THEN score <= ret ELSE score >= ret

\* minimax returned, at a depth above 0 on a board with several empty cells,
\* the score of a win of O that is still two moves away.
MinimaxFoundLaterWin ==
    /\ pc = "returned"
    /\ agent = "minimax.minimax"
    /\ depth = 2
    /\ Cardinality(EmptyCells(before[board])) >= 3
    /\ checkWin(before[board]) = null
    /\ ret = 10 - (depth + 2)

\* C15: during a call of MinimaxAgent.selectMove on a board of play the
\* depth of a call of minimax never exceeds 8, every score minimax returns
\* is in -10..10, and on a terminal board the score keeps the sign of the
\* outcome: at least 2 where O has won, at most -2 where X has won, and 0
\* only on a draw.
MinimaxScoresKeepSign ==
    pc = "minimax" =>
        /\ depth <= 8
        /\ (\/ checkWin(heap[2]) # null
            \/ Cardinality(EmptyCells(heap[2])) <= MaxEmptyScored) =>
               LET score == minimax(heap, 2, isMaximizing, depth).score
               IN /\ score \in -10..10
                  /\ checkWin(heap[2]) = PLAYER_O => score >= 2
                  /\ checkWin(heap[2]) = PLAYER_X => score <= -2
                  /\ (checkWin(heap[2]) # null \/ checkTie(heap[2]))
                        => (score = 0 <=> checkTie(heap[2]))

\* The deepest call: X has won with the ninth marker, at depth 8.
MinimaxDeepestWin ==
    /\ pc = "minimax"
    /\ depth = 8
    /\ checkWin(heap[2]) = PLAYER_X
    /\ minimax(heap, 2, isMaximizing, depth).score = -2

\* C16: expandNode on a node places, at the popped move on a copy of the
\* node's board, the marker of the node's playerToMove; the board of each
\* child of the root is the board passed to selectMove with one marker of
\* `player` at that child's move.
ExpandPlacesMarkerOfPlayerToMove ==
    \A n \in 2..Len(tree) :
        /\ heap[tree[n].board][tree[n].move] = tree[tree[n].parent].playerToMove
        /\ tree[n].parent = 1 =>
               heap[tree[n].board] = [before[board] EXCEPT ![tree[n].move] = player]

\* C17: in the tree every child's playerToMove is the opposite of its
\* parent's, and the root's playerToMove is the `player` passed to
\* selectMove.
PlayerToMoveAlternates ==
    /\ Len(tree) >= 1 => tree[1].playerToMove = player
    /\ \A n \in 2..Len(tree) :
          tree[n].playerToMove = Other(tree[tree[n].parent].playerToMove)

\* C18: in one backpropagation of a decisive result the perspective flips
\* at every step up the tree: of a node and its parent on the path, both
\* other than the root, exactly one gets a win-credit of 1 and the other 0.
Credit(n) == tree'[n].wins - tree[n].wins

BackpropagationFlips ==
    [][Len(tree') = Len(tree) =>
          \A n \in 2..Len(tree) :
              (/\ tree[n].parent # 1
               /\ tree'[n].visits = tree[n].visits + 1
               /\ Credit(n) # DRAW)
                  => Credit(n) + Credit(tree[n].parent) = WIN]_vars

\* C19: in a backpropagation of result (+1 a win of O, -1 a win of X, 0 a
\* draw) every node on the path but the root gains a win-credit of 1 if the
\* winner is the playerToMove of the node's parent, 0.5 on a draw, and 0
\* otherwise; hence 0 <= wins <= visits at every node, always.
Path == {n \in 1..Len(tree) : tree'[n].visits = tree[n].visits + 1}

Backpropagated ==
    IF pc = "rollout" THEN rolloutResult(heap[tempBoard])
    ELSE LET start == CHOOSE n \in Path : \A m \in Path : tree[m].parent # n
         IN rolloutResult(heap[tree[start].board])

CreditByParentPlayerToMove ==
    /\ [](\A n \in 1..Len(tree) :
             0 <= tree[n].wins /\ tree[n].wins <= WIN * tree[n].visits)
    /\ [][(Len(tree') = Len(tree) /\ Path # {}) =>
             \A n \in Path \ {1} :
                 Credit(n) =
                     IF Backpropagated = 0 THEN DRAW
                     ELSE IF tree[tree[n].parent].playerToMove =
                                (IF Backpropagated = 1 THEN PLAYER_O ELSE PLAYER_X)
                     THEN WIN
                     ELSE 0]_vars

\* After some iterations one node below the root has won every visit and
\* another has lost every visit, under a root that X is to move at.
CreditsGivenAndWithheld ==
    /\ pc = "iterate"
    /\ player = PLAYER_X
    /\ \E n, m \in 2..Len(tree) :
          /\ tree[n].visits >= 1
          /\ tree[n].wins = WIN * tree[n].visits
          /\ tree[m].visits >= 1
          /\ tree[m].wins = 0

\* C20 as stated: after any number of iterations every node's visits are
\* the sum of its children's visits, plus 1 if backpropagate was ever
\* called on the node itself.
RECURSIVE SumVisits(_, _)
SumVisits(children, k) ==
    IF k > Len(children) THEN 0
    ELSE tree[children[k]].visits + SumVisits(children, k + 1)

VisitsAreChildrenPlusOne ==
    pc \in {"iterate", "returned"} =>
        \A n \in 1..Len(tree) :
            tree[n].visits = SumVisits(tree[n].children, 1)
                             + (IF sampled[n] > 0 THEN 1 ELSE 0)

\* C20 amended: every node's visits are the sum of its children's visits
\* plus the number of times backpropagate was called on the node itself;
\* that number is 1 at a node with children, other than the root, and can
\* exceed 1 only at a node without children, whose board is terminal.
VisitsAreChildrenPlusSampled ==
    pc \in {"iterate", "returned"} =>
        \A n \in 1..Len(tree) :
            /\ tree[n].visits = SumVisits(tree[n].children, 1) + sampled[n]
            /\ sampled[n] > 1 =>
                   /\ Len(tree[n].children) = 0
                   /\ \/ checkWin(heap[tree[n].board]) # null
                      \/ checkTie(heap[tree[n].board])
            /\ (n # 1 /\ Len(tree[n].children) > 0) => sampled[n] = 1

\* A terminal node below the root was sampled twice, next to a sibling.
TerminalNodeSampledAgain ==
    /\ pc = "iterate"
    /\ Len(tree) >= 3
    /\ \E n \in 2..Len(tree) : sampled[n] >= 2

\* The node and its ancestors up to the root.
RECURSIVE PathToRoot(_)
PathToRoot(n) ==
    IF n = noParent THEN {} ELSE {n} \cup PathToRoot(tree[n].parent)

\* The node that the backpropagation of this pass starts at: the expanded
\* node after its rollout, the selected node when its board is terminal.
BackpropagationStart == IF pc = "rollout" THEN node ELSE selectNode(tree, 1)

\* C21: a backpropagation adds exactly one visit at its starting node and at
\* each ancestor up to and including the root, and leaves visits and wins of
\* every other node as they were; at every node visits is at least the sum
\* of its children's visits.
BackpropagationCountsPath ==
    /\ [](\A n \in 1..Len(tree) : tree[n].visits >= SumVisits(tree[n].children, 1))
    /\ [][i' = i + 1 =>
             /\ Len(tree') = Len(tree)
             /\ 1 \in PathToRoot(BackpropagationStart)
             /\ \A n \in 1..Len(tree) :
                   IF n \in PathToRoot(BackpropagationStart)
                   THEN tree'[n].visits = tree[n].visits + 1
                   ELSE /\ tree'[n].visits = tree[n].visits
                        /\ tree'[n].wins = tree[n].wins]_vars

\* A backpropagation from a grandchild of the root is done, and a node off
\* its path has visits of its own.
BackpropagatedFromGrandchild ==
    /\ pc = "iterate"
    /\ \E g, m \in 2..Len(tree) :
          /\ tree[g].parent # 1
          /\ tree[g].visits >= 1
          /\ m \notin PathToRoot(g)
          /\ tree[m].visits >= 1

\* What C22 says of the node s that selectNode(root) returns.
SelectedByUCT(s) ==
    /\ Len(tree[s].unexploredMoves) > 0 \/ Len(tree[s].children) = 0
    /\ \A n \in PathToRoot(s) \ {s} :
          Len(tree[n].unexploredMoves) = 0 /\ Len(tree[n].children) > 0
    /\ \A n \in PathToRoot(s) \ {1} :
          \A k \in 1..Len(tree[tree[n].parent].children) :
             LET sibling == tree[tree[n].parent].children[k]
             IN /\ getUCTScore(tree, n) >= getUCTScore(tree, sibling)
                /\ tree[sibling].visits = 0 => tree[n].visits = 0

\* C22: on every tree that selectMove builds, selectNode(root) returns a node
\* with an unexpanded move or without children; every node it went through
\* has no unexpanded move and has a child, and each node on the way down has
\* a UCT score that no sibling exceeds, an unvisited child being taken before
\* every visited one.
SelectNodeDescendsByUCT ==
    tree # <<>> => SelectedByUCT(selectNode(tree, 1))

\* selectNode goes down two levels, past a sibling with another score.
SelectNodeWentDown ==
    /\ pc = "iterate"
    /\ i < iterations
    /\ \E s \in {selectNode(tree, 1)} :
          /\ s # 1
          /\ tree[s].parent # 1
          /\ \E k \in 1..Len(tree[1].children) :
                getUCTScore(tree, tree[1].children[k]) < getUCTScore(tree, tree[s].parent)

\* The board of node n has a winner or is full.
TerminalNode(n) ==
    checkWin(heap[tree[n].board]) # null \/ EmptyCells(heap[tree[n].board]) = {}

\* The outcome of the board of node n: +1 if O has won, -1 if X has won, 0
\* for a draw.
OutcomeOf(n) ==
    IF checkWin(heap[tree[n].board]) = PLAYER_O THEN 1
    ELSE IF checkWin(heap[tree[n].board]) = PLAYER_X THEN -1
    ELSE 0

\* C23: a node whose board has a winner or is full has no child, and a pass
\* whose selection ends on such a node makes no node, copies no board, runs
\* no rollout and backpropagates from that node the outcome of its board.
TerminalNodeIsNeverExpanded ==
    /\ [](\A n \in 1..Len(tree) : TerminalNode(n) => Len(tree[n].children) = 0)
    /\ [][(pc = "iterate" /\ i < iterations /\ TerminalNode(selectNode(tree, 1))) =>
             /\ Len(tree') = Len(tree)
             /\ heap' = heap
             /\ pc' = "iterate"
             /\ i' = i + 1
             /\ sampled' = [sampled EXCEPT ![selectNode(tree, 1)] = @ + 1]
             /\ tree' = backpropagate(tree, selectNode(tree, 1),
                                      OutcomeOf(selectNode(tree, 1)))]_vars

\* A node whose board is won with a cell still empty was selected again and
\* has its unexplored move still.
WonNodeWithMovesLeftSampledAgain ==
    /\ pc = "iterate"
    /\ \E n \in 2..Len(tree) :
          /\ checkWin(heap[tree[n].board]) # null
          /\ Len(tree[n].unexploredMoves) > 0
          /\ Len(tree[n].children) = 0
          /\ sampled[n] >= 2

\* The board rollout was given, and the cells rollout has filled on its copy.
boardState == heap[tree[node].board]

Placed == {cell \in Cells : boardState[cell] = null /\ heap[tempBoard][cell] # null}

PlacedBy(p) == {cell \in Placed : heap[tempBoard][cell] = p}

TerminalBoard(b) == checkWin(b) # null \/ EmptyCells(b) = {}

\* C24: rollout writes only to its own copy and only to empty cells, the
\* markers alternate beginning with the turn it was given, it places a
\* marker exactly while the copy has no winner and an empty cell, so none on
\* a terminal board and at most as many as the board had empty cells, and
\* its result is 1 if O has won on the final board, -1 if X has, 0 otherwise.
RolloutPlaysToTheEnd ==
    /\ [](pc = "rollout" =>
            /\ tempBoard # board
            /\ \A n \in 1..Len(tree) : tree[n].board # tempBoard
            /\ \A cell \in Cells :
                  boardState[cell] # null => heap[tempBoard][cell] = boardState[cell]
            /\ Cardinality(Placed) <= Cardinality(EmptyCells(boardState))
            /\ TerminalBoard(boardState) => Placed = {}
            /\ Cardinality(PlacedBy(tree[node].playerToMove)) = (Cardinality(Placed) + 1) \div 2
            /\ Cardinality(PlacedBy(Other(tree[node].playerToMove))) = Cardinality(Placed) \div 2
            /\ currentTurn = IF Cardinality(Placed) % 2 = 0
                             THEN tree[node].playerToMove
                             ELSE Other(tree[node].playerToMove))
    /\ [][pc = "rollout" =>
             IF TerminalBoard(heap[tempBoard])
             THEN /\ pc' = "iterate"
                  /\ tree' = backpropagate(tree, node,
                                 IF checkWin(heap[tempBoard]) = PLAYER_O THEN 1
                                 ELSE IF checkWin(heap[tempBoard]) = PLAYER_X THEN -1
                                 ELSE 0)
             ELSE /\ pc' = "rollout"
                  /\ \E cell \in EmptyCells(heap[tempBoard]) :
                        heap' = [heap EXCEPT ![tempBoard][cell] = currentTurn]
                  /\ tree' = tree]_vars

\* A rollout from the board after the first move has placed five markers or
\* more and ended with a winner.
RolloutEndedWithWinner ==
    /\ pc = "rollout"
    /\ Cardinality(Placed) >= 5
    /\ checkWin(heap[tempBoard]) # null

\* The moves of the children of node n, and its unexplored moves, as sets.
ChildMoves(n) == {tree[tree[n].children[k]].move : k \in 1..Len(tree[n].children)}

Unexplored(n) == {tree[n].unexploredMoves[k] : k \in 1..Len(tree[n].unexploredMoves)}

\* C25: at every node the moves of the children and unexploredMoves have no
\* duplicate, share no move, and together are the empty cells of the node's
\* board; at a root whose board is not terminal, once as many iterations
\* are completed as the board has empty cells, unexploredMoves is empty and
\* every empty cell is the move of exactly one root child.
ChildrenAndUnexploredPartition ==
    /\ \A n \in 1..Len(tree) :
          /\ Cardinality(ChildMoves(n)) = Len(tree[n].children)
          /\ Cardinality(Unexplored(n)) = Len(tree[n].unexploredMoves)
          /\ ChildMoves(n) \cap Unexplored(n) = {}
          /\ ChildMoves(n) \cup Unexplored(n) = EmptyCells(heap[tree[n].board])
          /\ \A k \in 1..Len(tree[n].children) : tree[tree[n].children[k]].parent = n
    /\ (/\ pc \in {"iterate", "returned"}
        /\ tree # <<>>
        /\ ~TerminalBoard(heap[tree[1].board])
        /\ i >= Cardinality(EmptyCells(heap[tree[1].board]))) =>
          /\ tree[1].unexploredMoves = <<>>
          /\ \A move \in EmptyCells(heap[tree[1].board]) :
                Cardinality({c \in 1..Len(tree) :
                                tree[c].parent = 1 /\ tree[c].move = move}) = 1

\* Both moves of the root are expanded after two iterations or more, and a
\* root child has a child of its own.
RootFullyExpanded ==
    /\ pc = "iterate"
    /\ i >= 2
    /\ Len(tree[1].children) = 2
    /\ \E c \in 2..Len(tree) : tree[c].parent = 1 /\ Len(tree[c].children) = 1

\* C26 as stated: on every board with an empty cell and with every budget
\* of 1 or more, the move returned is the move of a root child with visits.
FallbackOnlyWithoutBudget ==
    (/\ pc = "returned"
     /\ agent = "mcts"
     /\ EmptyCells(before[board]) # {}
     /\ iterations >= 1) =>
        \E c \in VisitedRootChildren : ret = tree[c].move

\* C26 amended: with a budget of 1 or more, on a board with an empty cell
\* and no winner the move returned is the move of a root child with visits;
\* on a board with an empty cell that has a winner the root never gets a
\* child and the fallback returns the first of getAvailableMoves.
FallbackWithoutBudgetOrOnWonBoard ==
    (/\ pc = "returned"
     /\ agent = "mcts"
     /\ EmptyCells(before[board]) # {}
     /\ iterations >= 1) =>
        IF checkWin(before[board]) = null
        THEN \E c \in VisitedRootChildren : ret = tree[c].move
        ELSE /\ tree[1].children = <<>>
             /\ tree[1].visits = iterations
             /\ ret = getAvailableMoves(before[board])[1]

\* A call with a budget of 2 or more on a won board with two empty cells
\* has returned.
ReturnedFromWonBoard ==
    /\ pc = "returned"
    /\ agent = "mcts"
    /\ iterations >= 2
    /\ checkWin(before[board]) # null
    /\ Cardinality(EmptyCells(before[board])) = 2

\* The step applies one move: one empty cell of the driver's board gets the
\* marker of currentPlayer and nothing else in the heap changes.
OneMoveApplied ==
    \E cell \in Cells :
       /\ heap[board][cell] = null
       /\ heap' = [heap EXCEPT ![board][cell] = currentPlayer]

\* C27: between one startGame and the next, every step of the driver (a
\* click, a machine turn, a timer callback) leaves the board as it is or
\* applies one move to an empty cell: no cell that holds a marker is
\* written again or emptied, and the cells that hold a marker are those of
\* the moves applied since startGame.
MovesOnlyOnEmptyCells ==
    [][heap' = heap \/ OneMoveApplied \/ startGame]_vars

\* In machine-vs-machine mode a game was started again while a callback was
\* pending: two callbacks are pending and the game has three markers or more.
RestartedWithPendingTimer ==
    /\ dom.modeSelect = "ia-ia"
    /\ gameActive
    /\ timers = 2
    /\ Cardinality(Cells \ EmptyCells(heap[board])) >= 3

\* The cells of the driver's board that hold the marker of p.
MarkedBy(p) == {cell \in Cells : heap[board][cell] = p}

\* C28: in every state of the driver the board has as many X as O, or one
\* X more; in an active game it has as many when currentPlayer is X and
\* one X more when currentPlayer is O.
MarkersAlternateFromX ==
    /\ Cardinality(MarkedBy(PLAYER_X)) - Cardinality(MarkedBy(PLAYER_O)) \in {0, 1}
    /\ gameActive =>
          Cardinality(MarkedBy(PLAYER_X)) - Cardinality(MarkedBy(PLAYER_O))
             = IF currentPlayer = PLAYER_X THEN 0 ELSE 1

\* A later game of the second program, with the machine starting against a
\* human, is at O's turn with five markers on the board while a callback
\* is pending.
LaterGameAtTurnOfO ==
    /\ variant = 2
    /\ dom.modeSelect = "humano-ia"
    /\ dom.starterSelect = "maquina"
    /\ Counted >= 1
    /\ gameActive
    /\ currentPlayer = PLAYER_O
    /\ timers >= 1
    /\ Cardinality(MarkedBy(PLAYER_X)) = 3
    /\ Cardinality(MarkedBy(PLAYER_O)) = 2

\* C29: gameActive is true only on a board without winner that has an empty
\* cell; checkTie is true exactly on a full board without winner; and on a
\* board with a winner or without empty cell no step but startGame changes
\* the board.
EndOfGameDetected ==
    /\ [](/\ gameActive => (checkWin(heap[board]) = null /\ EmptyCells(heap[board]) # {})
          /\ checkTie(heap[board]) <=>
                (checkWin(heap[board]) = null /\ EmptyCells(heap[board]) = {}))
    /\ [][TerminalBoard(heap[board]) => (heap' = heap \/ startGame)]_vars

\* The game ended in a tie while a callback is still pending.
TiedWithPendingTimer ==
    /\ ~gameActive
    /\ checkTie(heap[board])
    /\ timers >= 1

\* The step is a click on a cell.
Clicked == \E index \in Cells : handleCellClick(index)

\* C30: with the selectors unchanged during a game, a click that places a
\* marker does so in an active game, not in machine-vs-machine mode, for a
\* side that has no agent; a timer callback that places a marker does so in
\* an active game for a side that has an agent; and the marker that
\* startGame's own machine turn places is an X for a side X that has an
\* agent.
MarkersPlacedByTheirParty ==
    [][/\ (heap' # heap /\ Clicked) =>
             /\ gameActive
             /\ dom.modeSelect # "ia-ia"
             /\ getAgent(currentPlayer) = null
             /\ ~setTimeoutCallback
       /\ (heap' # heap /\ setTimeoutCallback) =>
             /\ gameActive
             /\ getAgent(currentPlayer) # null
             /\ OneMoveApplied
       /\ (heap'[board] # EmptyBoard /\ startGame) =>
             /\ getAgent(PLAYER_X) # null
             /\ \E cell \in Cells : heap'[board] = [EmptyBoard EXCEPT ![cell] = PLAYER_X]
       /\ changeSelectors => heap' = heap]_vars

\* After a change of the selectors, a game of two humans is under way while
\* a callback of an earlier game against the machine is pending.
PendingTimerInGameOfHumans ==
    /\ dom.modeSelect = "humano-humano"
    /\ gameActive
    /\ timers >= 1
    /\ Cardinality(MarkedBy(PLAYER_X)) >= 1

\* The game is active and the side to move has an agent.
MachineToMove == gameActive /\ getAgent(currentPlayer) # null

\* C31: with the selectors unchanged and every pending timer callback
\* eventually run (startGame being called finitely often while machines
\* play), a callback can run exactly while one is pending; a machine's
\* turn in an active game always has a callback pending; every step taken
\* at a machine's turn applies one move of that side or is a startGame; an
\* active game has fewer than 9 markers; and a machine's turn always leads
\* to a state that is not a machine's turn, which in machine-vs-machine
\* mode is the end of the game.
MachineGameEnds ==
    /\ [](timers > 0 <=> ENABLED <<setTimeoutCallback>>_vars)
    /\ [](MachineToMove => timers > 0)
    /\ [](gameActive =>
            Cardinality(MarkedBy(PLAYER_X)) + Cardinality(MarkedBy(PLAYER_O)) < 9)
    /\ [][(MachineToMove /\ ~OneMoveApplied) => startGame]_vars
    /\ (MachineToMove ~> ~MachineToMove)

\* A game of two machines has ended in a tie after nine moves and no
\* callback is left.
MachinesPlayedNineMoves ==
    /\ dom.modeSelect = "ia-ia"
    /\ ~gameActive
    /\ checkTie(heap[board])
    /\ timers = 0

====
